---- MODULE Spec2Model ----
(***************************************************************************)
(* Model of the library catalog of src/library_app.py (class LibraryApp)   *)
(* and src/book.py (class Book).                                           *)
(*                                                                         *)
(* A Python str is a sequence of one-character strings, so that lower(),   *)
(* strip(), the substring test and the csv encoding are computed character *)
(* by character.  Python's 0-based list indices are kept: index i of the   *)
(* program is element i + 1 of the TLA+ sequence.                          *)
(***************************************************************************)
EXTENDS Integers, Sequences, FiniteSets, TLC

VARIABLES
    book_list,   \* LibraryApp.book_list: the catalog, a sequence of Book records
    file,        \* text of the file named LibraryApp.filename, or NoFile
    adding,      \* <<>>, or <<inputs>> of an add_book waiting for a valid genre
    last,        \* what the last operation was given and what it reported
    menu         \* where main() and the menus are, and the last selection

vars == <<book_list, file, adding, last, menu>>

(* ------------------------------ characters ----------------------------- *)

CR == "\r"
LF == "\n"
Comma == ","
DQuote == "\""
Space == " "
RSQuote == "U+2019"

Upper == <<"A", "B", "C", "D", "E", "F", "G", "H", "I", "J", "K", "L", "M",
           "N", "O", "P", "Q", "R", "S", "T", "U", "V", "W", "X", "Y", "Z">>

Lower == <<"a", "b", "c", "d", "e", "f", "g", "h", "i", "j", "k", "l", "m",
           "n", "o", "p", "q", "r", "s", "t", "u", "v", "w", "x", "y", "z">>

Digits == <<"0", "1", "2", "3", "4", "5", "6", "7", "8", "9">>

Whitespace == {Space, "\t", LF, CR}

\* str.lower() on one character
LowerChar(c) ==
    IF \E i \in 1..Len(Upper) : Upper[i] = c
    THEN Lower[CHOOSE i \in 1..Len(Upper) : Upper[i] = c]
    ELSE c

\* str.lower()
str_lower(s) == [i \in 1..Len(s) |-> LowerChar(s[i])]

\* str.strip(): drop leading and trailing whitespace
str_strip(s) ==
    LET keep == {i \in 1..Len(s) : s[i] \notin Whitespace}
    IN  IF keep = {} THEN <<>>
        ELSE LET lo == CHOOSE i \in keep : \A j \in keep : i <= j
                 hi == CHOOSE i \in keep : \A j \in keep : j <= i
             IN  SubSeq(s, lo, hi)

\* Python's `q in s` on strings: q is a contiguous substring of s
str_in(q, s) ==
    \E k \in 0..(Len(s) - Len(q)) : \A i \in 1..Len(q) : s[k + i] = q[i]

(* ------------------------------- Book ---------------------------------- *)

\* Book.GENRE_NAMES: genre id k is element k + 1
GENRE_NAMES ==
   <<
      <<"R", "o", "m", "a", "n", "c", "e">>,
      <<"M", "y", "s", "t", "e", "r", "y">>,
      <<"S", "c", "i", "e", "n", "c", "e", " ", "F", "i", "c", "t", "i", "o", "n">>,
      <<"T", "h", "r", "i", "l", "l", "e", "r">>,
      <<"Y", "o", "u", "n", "g", " ", "A", "d", "u", "l", "t">>,
      <<"C", "h", "i", "l", "d", "r", "e", "n", RSQuote, "s", " ", "F", "i", "c", "t", "i", "o", "n">>,
      <<"S", "e", "l", "f", "-", "h", "e", "l", "p">>,
      <<"F", "a", "n", "t", "a", "s", "y">>,
      <<"H", "i", "s", "t", "o", "r", "i", "c", "a", "l", " ", "F", "i", "c", "t", "i", "o", "n">>,
      <<"P", "o", "e", "t", "r", "y">>
   >>

GenreIds == 0..(Len(GENRE_NAMES) - 1)

\* the value None
None == <<"None">>

\* Book.__init__
Book(isbn, title, author, genre, available) ==
    [isbn |-> isbn, title |-> title, author |-> author,
     genre |-> genre, available |-> available]

\* Book.get_genre_name: dict.get gives None for a missing key
get_genre_name(book) ==
    IF book.genre \in GenreIds THEN GENRE_NAMES[book.genre + 1] ELSE None

\* borrow_it with the flag of return_it
borrow_it_sets_true(book) == [book EXCEPT !.available = TRUE]

\* Book.borrow_it
borrow_it(book) == [book EXCEPT !.available = FALSE]

\* return_it with the flag of borrow_it
return_it_sets_false(book) == [book EXCEPT !.available = FALSE]

\* Book.return_it
return_it(book) == [book EXCEPT !.available = TRUE]

\* Book.set_isbn
set_isbn(book, isbn) == [book EXCEPT !.isbn = isbn]

\* Book.set_title
set_title(book, title) == [book EXCEPT !.title = title]

\* set_author that assigns to the title field
set_author_sets_title(book, author) == [book EXCEPT !.title = author]

\* Book.set_author
set_author(book, author) == [book EXCEPT !.author = author]

\* Book.set_genre
set_genre(book, genre) == [book EXCEPT !.genre = genre]

(* ------------------------ int(), str() and csv -------------------------- *)

\* value of a decimal digit character
DigitValue(c) == (CHOOSE i \in 1..Len(Digits) : Digits[i] = c) - 1

RECURSIVE digits_value(_)
digits_value(s) ==
    IF s = <<>> THEN 0
    ELSE digits_value(SubSeq(s, 1, Len(s) - 1)) * 10 + DigitValue(s[Len(s)])

IsDigits(s) ==
    /\ Len(s) > 0
    /\ \A i \in 1..Len(s) : \E d \in 1..Len(Digits) : Digits[d] = s[i]

\* int(text): surrounding whitespace is dropped, then an optional sign and
\* decimal digits; anything else raises ValueError (ok = FALSE)
py_int(text) ==
    LET t == str_strip(text)
        signed == Len(t) > 0 /\ t[1] \in {"+", "-"}
        body == IF signed THEN Tail(t) ELSE t
    IN  IF IsDigits(body)
        THEN [ok |-> TRUE,
              val |-> IF signed /\ t[1] = "-" THEN 0 - digits_value(body)
                      ELSE digits_value(body)]
        ELSE [ok |-> FALSE, val |-> 0]

RECURSIVE nat_str(_)
nat_str(n) ==
    IF n < 10 THEN <<Digits[n + 1]>>
    ELSE Append(nat_str(n \div 10), Digits[(n % 10) + 1])

\* str(n) of an int, as csv.writer applies it to a non-string field
py_str(n) == IF n < 0 THEN <<"-">> \o nat_str(0 - n) ELSE nat_str(n)

\* the text "True" / "False" written for the available flag
TrueText == <<"T", "r", "u", "e">>
FalseText == <<"F", "a", "l", "s", "e">>

RECURSIVE csv_double_quotes(_)
csv_double_quotes(field) ==
    IF field = <<>> THEN <<>>
    ELSE IF Head(field) = DQuote
         THEN <<DQuote, DQuote>> \o csv_double_quotes(Tail(field))
         ELSE <<Head(field)>> \o csv_double_quotes(Tail(field))

\* csv.writer, QUOTE_MINIMAL: a field is quoted when it holds the delimiter,
\* the quote character or a character of the line terminator
csv_field(field) ==
    IF \E i \in 1..Len(field) : field[i] \in {Comma, DQuote, CR, LF}
    THEN <<DQuote>> \o csv_double_quotes(field) \o <<DQuote>>
    ELSE field

RECURSIVE csv_join(_)
csv_join(fields) ==
    IF Len(fields) = 0 THEN <<>>
    ELSE IF Len(fields) = 1 THEN csv_field(fields[1])
    ELSE csv_field(fields[1]) \o <<Comma>> \o csv_join(Tail(fields))

\* writer.writerow(row): the joined fields and the line terminator "\r\n".
\* The file is opened with newline='', so the text is written as it is.
csv_writerow(fields) == csv_join(fields) \o <<CR, LF>>

\* the row save_books writes for one book
book_row(book) ==
    csv_writerow(<<book.isbn, book.title, book.author, py_str(book.genre),
                   IF book.available THEN TrueText ELSE FalseText>>)

RECURSIVE save_text(_)
save_text(books) ==
    IF books = <<>> THEN <<>>
    ELSE book_row(Head(books)) \o save_text(Tail(books))

\* open(filename, mode='r'): text mode without newline='' translates
\* "\r\n" and a lone "\r" to "\n" before the csv reader sees the text
RECURSIVE universal_newlines(_)
universal_newlines(text) ==
    IF text = <<>> THEN <<>>
    ELSE IF Head(text) = CR
         THEN IF Len(text) > 1 /\ text[2] = LF
              THEN <<LF>> \o universal_newlines(Tail(Tail(text)))
              ELSE <<LF>> \o universal_newlines(Tail(text))
         ELSE <<Head(text)>> \o universal_newlines(Tail(text))

\* csv.reader (non-strict, doublequote) over the translated text; st is the
\* parser state, field and row what has been collected of the current record
RECURSIVE csv_parse(_, _, _, _, _)
csv_parse(text, st, field, row, rows) ==
    IF text = <<>>
    THEN IF st = "START_RECORD" THEN rows ELSE Append(rows, Append(row, field))
    ELSE
      LET c == Head(text)
          rest == Tail(text)
      IN
      CASE st = "START_RECORD" /\ c = LF ->
             csv_parse(rest, "START_RECORD", <<>>, <<>>, Append(rows, <<>>))
        [] st \in {"START_RECORD", "START_FIELD"} /\ c # LF ->
             IF c = DQuote THEN csv_parse(rest, "IN_QUOTED_FIELD", <<>>, row, rows)
             ELSE IF c = Comma
                  THEN csv_parse(rest, "START_FIELD", <<>>, Append(row, <<>>), rows)
                  ELSE csv_parse(rest, "IN_FIELD", <<c>>, row, rows)
        [] st \in {"START_FIELD", "IN_FIELD", "QUOTE_IN_QUOTED_FIELD"} /\ c = LF ->
             csv_parse(rest, "START_RECORD", <<>>, <<>>,
                       Append(rows, Append(row, field)))
        [] st = "IN_FIELD" /\ c # LF ->
             IF c = Comma
             THEN csv_parse(rest, "START_FIELD", <<>>, Append(row, field), rows)
             ELSE csv_parse(rest, "IN_FIELD", Append(field, c), row, rows)
        [] st = "IN_QUOTED_FIELD" ->
             IF c = DQuote
             THEN csv_parse(rest, "QUOTE_IN_QUOTED_FIELD", field, row, rows)
             ELSE csv_parse(rest, "IN_QUOTED_FIELD", Append(field, c), row, rows)
        [] st = "QUOTE_IN_QUOTED_FIELD" /\ c # LF ->
             IF c = DQuote
             THEN csv_parse(rest, "IN_QUOTED_FIELD", Append(field, DQuote), row, rows)
             ELSE IF c = Comma
                  THEN csv_parse(rest, "START_FIELD", <<>>, Append(row, field), rows)
                  ELSE csv_parse(rest, "IN_FIELD", Append(field, c), row, rows)

\* the rows csv.reader(file) yields for a file with this text
csv_reader(text) ==
    csv_parse(universal_newlines(text), "START_RECORD", <<>>, <<>>, <<>>)

\* the loop of load_books over the rows: a row that does not unpack into five
\* fields, or whose genre is not an int, raises ValueError and ends the loop
\* with the books of the rows before it already appended
RECURSIVE load_rows(_, _)
load_rows(rows, books) ==
    IF rows = <<>> THEN [books |-> books, raised |-> FALSE]
    ELSE LET row == Head(rows) IN
         IF Len(row) # 5 \/ ~py_int(row[4]).ok
         THEN [books |-> books, raised |-> TRUE]
         ELSE load_rows(Tail(rows),
                        Append(books, Book(row[1], row[2], row[3],
                                           py_int(row[4]).val, row[5] = TrueText)))

(* ------------------------------ bounds ---------------------------------- *)

\* the catalog is explored up to this many books
MaxBooks == 3

(* ------------------------------ inputs ---------------------------------- *)

NoFile == <<"NoFile">>

\* lines typed at the ISBN prompts (before strip)
IsbnInputs == { <<"1">>, <<Space, "2", Space>>, <<"3">> }

\* ISBNs handed to find_book_by_isbn
IsbnValues == { str_strip(raw) : raw \in IsbnInputs }

\* lines typed at the ISBN, title and author prompts of add_book
AddInputs ==
    { <<  <<"1">>, <<"D", "u">>, <<"F">>  >>,
      <<  <<Space, "2">>, <<"b">>, <<"c", Space>>  >> }

\* lines typed at the genre prompt
GenreInputs ==
    { <<"P", "o", "e", "t", "r", "y", Space>>,
      <<"p", "o", "e", "t", "r", "y">>,
      <<>> }

\* search values typed at the search prompt
SearchInputs ==
    { <<>>, <<"D", "U">>, <<"f">>, <<"P", "O", "E", "T">>, <<"1">>,
      <<"z", "z", "z">> }

\* what the catalog file may hold when the program starts: no file, an empty
\* file, two good rows with the same ISBN, a row whose genre is outside the
\* table, a short second row, a genre that is no integer
InitialFiles ==
    { NoFile,
      <<>>,
      <<"1", ",", "D", "u", ",", "F", ",", "9", ",", "T", "r", "u", "e", CR, LF,
        "1", ",", "b", ",", "c", ",", "2", ",", "F", "a", "l", "s", "e", CR, LF>>,
      <<"2", ",", "b", ",", "c", ",", "1", "0", ",", "T", "r", "u", "e", LF>>,
      <<"2", ",", "b", ",", "c", ",", "9", ",", "F", "a", "l", "s", "e", LF,
        "1", ",", "D", "u", LF>>,
      <<"1", ",", "D", "u", ",", "F", ",", "z", ",", "T", "r", "u", "e", LF>> }

(* ----------------------------- LibraryApp ------------------------------- *)

\* what an operation reports: the (stripped) input it acted on, its outcome,
\* the title it printed, the value it returned and the books it printed
Report(op, arg, out, title, ret, results) ==
    [op |-> op, arg |-> arg, out |-> out, title |-> title, ret |-> ret,
     results |-> results, given |-> <<>>]

\* the report of add_book, with the four values it was given
AddReport(out, isbn, title, author, genre_name) ==
    [Report("add", isbn, out, IF out = "added" THEN title ELSE <<>>, 0, <<>>)
        EXCEPT !.given = <<isbn, title, author, genre_name>>]

\* the methods of LibraryApp are called directly, no menu is running
NoMenu == [at |-> "none", sel |-> <<>>]

\* LibraryApp.__init__
Init ==
    /\ book_list = <<>>
    /\ file \in InitialFiles
    /\ adding = <<>>
    /\ last = Report("init", <<>>, "ok", <<>>, 0, <<>>)
    /\ menu = NoMenu

\* find_book_by_isbn that keeps scanning and returns the last match
find_book_by_isbn_last(books, isbn) ==
    IF \E i \in 1..Len(books) : books[i].isbn = isbn
    THEN (CHOOSE i \in 1..Len(books) :
            /\ books[i].isbn = isbn
            /\ \A j \in (i + 1)..Len(books) : books[j].isbn # isbn) - 1
    ELSE -1

\* LibraryApp.find_book_by_isbn: index of the first book with this ISBN, or -1
find_book_by_isbn(books, isbn) ==
    IF \E i \in 1..Len(books) : books[i].isbn = isbn
    THEN (CHOOSE i \in 1..Len(books) :
            /\ books[i].isbn = isbn
            /\ \A j \in 1..(i - 1) : books[j].isbn # isbn) - 1
    ELSE -1

\* a call of find_book_by_isbn on its own
FindBook(isbn) ==
    /\ adding = <<>>
    /\ last' = Report("find", isbn, "ok", <<>>, find_book_by_isbn(book_list, isbn), <<>>)
    /\ UNCHANGED <<book_list, file, adding>>

\* borrow_book without the test for -1: book_list[-1] is the last book
borrow_book_no_test(raw) ==
    LET isbn == str_strip(raw)
        found == find_book_by_isbn(book_list, isbn)
        index == IF found = -1 THEN Len(book_list) - 1 ELSE found
    IN
    /\ adding = <<>>
    /\ IF book_list = <<>>
       THEN /\ last' = Report("borrow", isbn, "IndexError", <<>>, 0, <<>>)
            /\ UNCHANGED book_list
       ELSE IF ~book_list[index + 1].available
       THEN /\ last' = Report("borrow", isbn, "not_available",
                              book_list[index + 1].title, 0, <<>>)
            /\ UNCHANGED book_list
       ELSE /\ book_list' = [book_list EXCEPT ![index + 1] = borrow_it(@)]
            /\ last' = Report("borrow", isbn, "borrowed",
                              book_list'[index + 1].title, 0, <<>>)
    /\ UNCHANGED <<file, adding>>

\* LibraryApp.borrow_book
borrow_book(raw) ==
    LET isbn == str_strip(raw)
        index == find_book_by_isbn(book_list, isbn)
    IN
    /\ adding = <<>>
    /\ IF index = -1
       THEN /\ last' = Report("borrow", isbn, "not_found", <<>>, 0, <<>>)
            /\ UNCHANGED book_list
       ELSE IF ~book_list[index + 1].available
       THEN /\ last' = Report("borrow", isbn, "not_available",
                              book_list[index + 1].title, 0, <<>>)
            /\ UNCHANGED book_list
       ELSE /\ book_list' = [book_list EXCEPT ![index + 1] = borrow_it(@)]
            /\ last' = Report("borrow", isbn, "borrowed",
                              book_list'[index + 1].title, 0, <<>>)
    /\ UNCHANGED <<file, adding>>

\* return_book without the test of the book's state
return_book_no_state_test(raw) ==
    LET isbn == str_strip(raw)
        index == find_book_by_isbn(book_list, isbn)
    IN
    /\ adding = <<>>
    /\ IF index = -1
       THEN /\ last' = Report("return", isbn, "not_found", <<>>, 0, <<>>)
            /\ UNCHANGED book_list
       ELSE /\ book_list' = [book_list EXCEPT ![index + 1] = return_it(@)]
            /\ last' = Report("return", isbn, "returned",
                              book_list'[index + 1].title, 0, <<>>)
    /\ UNCHANGED <<file, adding>>

\* LibraryApp.return_book
return_book(raw) ==
    LET isbn == str_strip(raw)
        index == find_book_by_isbn(book_list, isbn)
    IN
    /\ adding = <<>>
    /\ IF index = -1
       THEN /\ last' = Report("return", isbn, "not_found", <<>>, 0, <<>>)
            /\ UNCHANGED book_list
       ELSE IF book_list[index + 1].available
       THEN /\ last' = Report("return", isbn, "not_borrowed",
                              book_list[index + 1].title, 0, <<>>)
            /\ UNCHANGED book_list
       ELSE /\ book_list' = [book_list EXCEPT ![index + 1] = return_it(@)]
            /\ last' = Report("return", isbn, "returned",
                              book_list'[index + 1].title, 0, <<>>)
    /\ UNCHANGED <<file, adding>>

\* list.pop() without its argument: the last book goes
list_pop_last(books, index) == SubSeq(books, 1, Len(books) - 1)

\* list.pop(index), index 0-based
list_pop(books, index) ==
    SubSeq(books, 1, index) \o SubSeq(books, index + 2, Len(books))

\* LibraryApp.remove_book
remove_book(raw) ==
    LET isbn == str_strip(raw)
        index == find_book_by_isbn(book_list, isbn)
    IN
    /\ adding = <<>>
    /\ IF index = -1
       THEN /\ last' = Report("remove", isbn, "not_found", <<>>, 0, <<>>)
            /\ UNCHANGED book_list
       ELSE /\ book_list' = list_pop(book_list, index)
            /\ last' = Report("remove", isbn, "removed",
                              book_list[index + 1].title, 0, <<book_list[index + 1]>>)
    /\ UNCHANGED <<file, adding>>

\* valid_genres of add_book: the names of Book.GENRE_NAMES
valid_genres == { GENRE_NAMES[k] : k \in 1..Len(GENRE_NAMES) }

\* the place in the table taken for the key: one more than the key, the
\* keys starting at 0
genre_of_name_from_1(genre_name) ==
    CHOOSE k \in 1..Len(GENRE_NAMES) : GENRE_NAMES[k] = genre_name

\* next(key for key, value in GENRE_NAMES.items() if value == genre_name)
genre_of_name(genre_name) ==
    (CHOOSE k \in 1..Len(GENRE_NAMES) :
        /\ GENRE_NAMES[k] = genre_name
        /\ \A j \in 1..(k - 1) : GENRE_NAMES[j] # genre_name) - 1

\* add_book with `if` for `while`: the choices are printed and the book is
\* appended all the same, with the first genre
add_genre_no_loop(isbn, title, author, rawGenre) ==
    LET genre_name == str_strip(rawGenre) IN
    /\ adding' = <<>>
    /\ book_list' = Append(book_list,
                           Book(isbn, title, author,
                                IF genre_name \in { GENRE_NAMES[k] : k \in 1..Len(GENRE_NAMES) }
                                THEN (CHOOSE k \in 1..Len(GENRE_NAMES) :
                                        GENRE_NAMES[k] = genre_name) - 1
                                ELSE 0,
                                TRUE))
    /\ last' = AddReport(IF genre_name \in { GENRE_NAMES[k] : k \in 1..Len(GENRE_NAMES) }
                         THEN "added" ELSE "invalid_genre",
                         isbn, title, author, genre_name)

\* the genre loop of add_book, entered with one line typed at the genre
\* prompt: an invalid name prints the choices and asks again, a valid one
\* appends the book
add_genre(isbn, title, author, rawGenre) ==
    LET genre_name == str_strip(rawGenre) IN
    IF genre_name \notin valid_genres
    THEN /\ adding' = << <<isbn, title, author>> >>
         /\ last' = AddReport("invalid_genre", isbn, title, author, genre_name)
         /\ UNCHANGED book_list
    ELSE /\ adding' = <<>>
         /\ book_list' = Append(book_list,
                                Book(isbn, title, author, genre_of_name(genre_name), TRUE))
         /\ last' = AddReport("added", isbn, title, author, genre_name)

\* LibraryApp.add_book, from its first prompt to the first genre typed
add_book(rawIsbn, rawTitle, rawAuthor, rawGenre) ==
    /\ adding = <<>>
    /\ Len(book_list) < MaxBooks
    /\ add_genre(str_strip(rawIsbn), str_strip(rawTitle), str_strip(rawAuthor), rawGenre)
    /\ UNCHANGED file

\* LibraryApp.add_book, asking for the genre again after an invalid one
add_book_retry(rawGenre) ==
    /\ adding # <<>>
    /\ add_genre(adding[1][1], adding[1][2], adding[1][3], rawGenre)
    /\ UNCHANGED file

\* Book.__str__ formats get_genre_name() with a width: TypeError when it is
\* None.  print_books prints the given books one by one.
print_raises(books) ==
    \E i \in 1..Len(books) : get_genre_name(books[i]) = None

\* the test of search_books on one book, left to right: get_genre_name() is
\* only reached when ISBN, title and author do not match, and then
\* None.lower() raises AttributeError
search_match(search_value, book) ==
    IF \/ str_in(search_value, str_lower(book.isbn))
       \/ str_in(search_value, str_lower(book.title))
       \/ str_in(search_value, str_lower(book.author))
    THEN "match"
    ELSE IF get_genre_name(book) = None THEN "raise"
    ELSE IF str_in(search_value, str_lower(get_genre_name(book))) THEN "match"
    ELSE "no"

\* the loop of search_books
RECURSIVE search_scan(_, _, _)
search_scan(search_value, books, results) ==
    IF books = <<>> THEN [results |-> results, raised |-> FALSE]
    ELSE LET m == search_match(search_value, Head(books)) IN
         IF m = "raise" THEN [results |-> results, raised |-> TRUE]
         ELSE search_scan(search_value, Tail(books),
                          IF m = "match" THEN Append(results, Head(books))
                          ELSE results)

\* what print_books reports for the list it is given
print_report(op, arg, books) ==
    IF books = <<>> THEN Report(op, arg, "no_match", <<>>, 0, <<>>)
    ELSE IF print_raises(books) THEN Report(op, arg, "error", <<>>, 0, <<>>)
    ELSE Report(op, arg, "listed", <<>>, 0, books)

\* LibraryApp.search_books
search_books(raw) ==
    LET search_value == str_lower(str_strip(raw))
        scan == search_scan(search_value, book_list, <<>>)
    IN
    /\ adding = <<>>
    /\ last' = IF scan.raised
               THEN Report("search", search_value, "error", <<>>, 0, <<>>)
               ELSE print_report("search", search_value, scan.results)
    /\ UNCHANGED <<book_list, file, adding>>

\* LibraryApp.print_books() on the whole catalog
print_books ==
    /\ adding = <<>>
    /\ last' = print_report("list", <<>>, book_list)
    /\ UNCHANGED <<book_list, file, adding>>

\* LibraryApp.load_books(self.filename)
load_books ==
    /\ adding = <<>>
    /\ IF file = NoFile
       THEN /\ last' = Report("load", <<>>, "not_found", <<>>, -1, <<>>)
            /\ UNCHANGED book_list
       ELSE LET loaded == load_rows(csv_reader(file), book_list) IN
            /\ Len(loaded.books) <= MaxBooks
            /\ book_list' = loaded.books
            /\ last' = IF loaded.raised
                       THEN Report("load", <<>>, "ValueError", <<>>, 0, <<>>)
                       ELSE Report("load", <<>>, "loaded", <<>>, Len(book_list'), <<>>)
    /\ UNCHANGED <<file, adding>>

\* save_books opening the file for appending instead of for writing
save_books_appends ==
    /\ adding = <<>>
    /\ file' = (IF file = NoFile THEN <<>> ELSE file) \o save_text(book_list)
    /\ last' = Report("save", <<>>, "saved", <<>>, 0, <<>>)
    /\ UNCHANGED <<book_list, adding>>

\* LibraryApp.save_books
save_books ==
    /\ adding = <<>>
    /\ file' = save_text(book_list)
    /\ last' = Report("save", <<>>, "saved", <<>>, 0, <<>>)
    /\ UNCHANGED <<book_list, adding>>

Next ==
    \/ \E isbn \in IsbnValues : FindBook(isbn) /\ UNCHANGED menu
    \/ \E raw \in IsbnInputs : borrow_book(raw) /\ UNCHANGED menu
    \/ \E raw \in IsbnInputs : return_book(raw) /\ UNCHANGED menu
    \/ \E raw \in IsbnInputs : remove_book(raw) /\ UNCHANGED menu
    \/ \E a \in AddInputs, g \in GenreInputs :
          add_book(a[1], a[2], a[3], g) /\ UNCHANGED menu
    \/ \E g \in GenreInputs : add_book_retry(g) /\ UNCHANGED menu
    \/ \E raw \in SearchInputs : search_books(raw) /\ UNCHANGED menu
    \/ print_books /\ UNCHANGED menu
    \/ load_books /\ UNCHANGED menu

\* the operations of one session on the catalog in memory; the file is read
Spec == Init /\ [][Next]_vars

(* --------------------- sessions with save and restart ------------------- *)

\* a new run of the program: LibraryApp.__init__ gives an empty catalog, the
\* file is what the last run left
restart ==
    /\ book_list' = <<>>
    /\ adding' = <<>>
    /\ last' = Report("init", <<>>, "ok", <<>>, 0, <<>>)
    /\ UNCHANGED <<file, menu>>

\* add_book inputs of the sessions with save: the second title holds a
\* carriage return (a line read from a pipe keeps it)
SaveAddInputs ==
    { <<  <<"1">>, <<"D", "u">>, <<"F">>  >>,
      <<  <<"2">>, <<"a", CR, "b">>, <<"c", ",", DQuote>>  >> }

SaveGenreInputs == { <<"P", "o", "e", "t", "r", "y">> }

SaveInit ==
    /\ book_list = <<>>
    /\ file \in {NoFile, <<>>}
    /\ adding = <<>>
    /\ last = Report("init", <<>>, "ok", <<>>, 0, <<>>)
    /\ menu = NoMenu

SaveNext ==
    \/ \E a \in SaveAddInputs, g \in SaveGenreInputs :
          add_book(a[1], a[2], a[3], g) /\ UNCHANGED menu
    \/ \E raw \in IsbnInputs : borrow_book(raw) /\ UNCHANGED menu
    \/ \E raw \in IsbnInputs : remove_book(raw) /\ UNCHANGED menu
    \/ load_books /\ UNCHANGED menu
    \/ save_books /\ UNCHANGED menu
    \/ restart

\* runs of the program that save the catalog and load it again
SaveSpec == SaveInit /\ [][SaveNext]_vars

(* ---------------- every operation of the catalog, with save ------------- *)

CatalogSearchInputs == { <<"D", "U">> }

CatalogGenreInputs == { <<"P", "o", "e", "t", "r", "y">> }

\* a new LibraryApp and no file yet
CatalogInit ==
    /\ book_list = <<>>
    /\ file = NoFile
    /\ adding = <<>>
    /\ last = Report("init", <<>>, "ok", <<>>, 0, <<>>)
    /\ menu = NoMenu

CatalogNext ==
    \/ \E isbn \in IsbnValues : FindBook(isbn) /\ UNCHANGED menu
    \/ \E raw \in IsbnInputs : borrow_book(raw) /\ UNCHANGED menu
    \/ \E raw \in IsbnInputs : return_book(raw) /\ UNCHANGED menu
    \/ \E raw \in IsbnInputs : remove_book(raw) /\ UNCHANGED menu
    \/ \E a \in AddInputs, g \in CatalogGenreInputs :
          add_book(a[1], a[2], a[3], g) /\ UNCHANGED menu
    \/ \E raw \in CatalogSearchInputs : search_books(raw) /\ UNCHANGED menu
    \/ print_books /\ UNCHANGED menu
    \/ load_books /\ UNCHANGED menu
    \/ save_books /\ UNCHANGED menu

\* the methods of one LibraryApp called in any order, save among them
CatalogSpec == CatalogInit /\ [][CatalogNext]_vars

(* ------------------- Book objects used on their own -------------------- *)

\* a list of books built with the constructor, one of them borrowed
BookInit ==
    /\ book_list = << Book(<<"1">>, <<"D", "u">>, <<"F">>, 2, TRUE),
                      Book(<<"2">>, <<"b">>, <<"c">>, 9, FALSE) >>
    /\ file = NoFile
    /\ adding = <<>>
    /\ last = Report("init", <<>>, "ok", <<>>, 0, <<>>)
    /\ menu = NoMenu

\* values handed to the setters
IsbnArgs == { <<"3">> }
TitleArgs == { <<"G", "r">> }
AuthorArgs == { <<"D", "r">> }
GenreArgs == { 5, 12 }

\* current_book = book_list[index]; current_book.<method>(value)
BookCall(op, index, value, changed) ==
    /\ book_list' = [book_list EXCEPT ![index + 1] = changed]
    /\ last' = Report(op, value, "ok", <<>>, index, <<>>)
    /\ UNCHANGED <<file, adding, menu>>

BookNext ==
    \E index \in 0..1 :
        LET current_book == book_list[index + 1] IN
        \/ BookCall("borrow_it", index, <<>>, borrow_it(current_book))
        \/ BookCall("return_it", index, <<>>, return_it(current_book))
        \/ \E v \in IsbnArgs : BookCall("set_isbn", index, v, set_isbn(current_book, v))
        \/ \E v \in TitleArgs : BookCall("set_title", index, v, set_title(current_book, v))
        \/ \E v \in AuthorArgs : BookCall("set_author", index, v, set_author(current_book, v))
        \/ \E v \in GenreArgs : BookCall("set_genre", index, <<v>>, set_genre(current_book, v))

\* the methods of Book called in any order on the books of a list
BookSpec == BookInit /\ [][BookNext]_vars

(* ------------------------- main() and the menus ------------------------ *)

\* what is typed at "Enter your selection: "
Selections ==
    { <<"1">>, <<"2">>, <<"3">>, <<"4">>, <<"5">>, <<"6">>, <<"7">>,
      <<"0">>, <<Space, "0", Space>>, <<"2", "1", "3", "0">> }

LibrarianCode == <<"2", "1", "3", "0">>

\* main() has made the LibraryApp and asks for the file name
MenuInit ==
    /\ book_list = <<>>
    /\ file \in InitialFiles
    /\ adding = <<>>
    /\ last = Report("init", <<>>, "ok", <<>>, 0, <<>>)
    /\ menu = [at |-> "start", sel |-> <<>>]

\* main that goes to the librarian menu once the file is loaded
main_calls_librarian_menu ==
    /\ menu.at = "start"
    /\ load_books
    /\ menu' = [at |-> IF last'.out = "not_found" THEN "start"
                       ELSE IF last'.out = "ValueError" THEN "crashed"
                       ELSE "librarian",
                sel |-> <<>>]

\* main: load_books until it does not return -1, then main_menu; a
\* ValueError of load_books ends the program
main ==
    /\ menu.at = "start"
    /\ load_books
    /\ menu' = [at |-> IF last'.out = "not_found" THEN "start"
                       ELSE IF last'.out = "ValueError" THEN "crashed"
                       ELSE "main",
                sel |-> <<>>]

\* the menu is shown again after the call, unless the call raised
after_call(at, selection) ==
    menu' = [at |-> IF last'.out = "error" THEN "crashed" ELSE at,
             sel |-> selection]

\* the exit branch calling sys.exit() with no save
exit_system_no_save(selection) ==
    /\ adding = <<>>
    /\ last' = Report("exit", <<>>, "ok", <<>>, 0, <<>>)
    /\ menu' = [at |-> "exited", sel |-> selection]
    /\ UNCHANGED <<book_list, file, adding>>

\* selection "0" of either menu: save_books(), "Good Bye!", sys.exit()
exit_system(selection) ==
    /\ save_books
    /\ menu' = [at |-> "exited", sel |-> selection]

\* the else branch of either menu: "Invalid option."
invalid_option(at, selection) ==
    /\ adding = <<>>
    /\ last' = Report("menu", selection, "invalid_option", <<>>, 0, <<>>)
    /\ menu' = [at |-> at, sel |-> selection]
    /\ UNCHANGED <<book_list, file, adding>>

\* LibraryApp.main_menu, one turn of its loop
main_menu(raw) ==
    LET selection == str_strip(raw) IN
    /\ menu.at = "main"
    /\ \/ /\ selection = <<"1">>
          /\ \E search_value \in SearchInputs : search_books(search_value)
          /\ after_call("main", selection)
       \/ /\ selection = <<"2">>
          /\ \E isbn \in IsbnInputs : borrow_book(isbn)
          /\ after_call("main", selection)
       \/ /\ selection = <<"3">>
          /\ \E isbn \in IsbnInputs : return_book(isbn)
          /\ after_call("main", selection)
       \/ /\ selection = <<"0">>
          /\ exit_system(selection)
       \/ /\ selection = LibrarianCode
          /\ adding = <<>>
          /\ last' = Report("menu", selection, "librarian_menu", <<>>, 0, <<>>)
          /\ menu' = [at |-> "librarian", sel |-> selection]
          /\ UNCHANGED <<book_list, file, adding>>
       \/ /\ selection \notin {<<"1">>, <<"2">>, <<"3">>, <<"0">>, LibrarianCode}
          /\ invalid_option("main", selection)

\* LibraryApp.librarian_menu, one turn of its loop
librarian_menu(raw) ==
    LET selection == str_strip(raw) IN
    /\ menu.at = "librarian"
    /\ \/ /\ selection = <<"1">>
          /\ \E search_value \in SearchInputs : search_books(search_value)
          /\ after_call("librarian", selection)
       \/ /\ selection = <<"2">>
          /\ \E isbn \in IsbnInputs : borrow_book(isbn)
          /\ after_call("librarian", selection)
       \/ /\ selection = <<"3">>
          /\ \E isbn \in IsbnInputs : return_book(isbn)
          /\ after_call("librarian", selection)
       \/ /\ selection = <<"4">>
          /\ \E a \in AddInputs, g \in GenreInputs : add_book(a[1], a[2], a[3], g)
          /\ after_call("librarian", selection)
       \/ /\ selection = <<"5">>
          /\ \E isbn \in IsbnInputs : remove_book(isbn)
          /\ after_call("librarian", selection)
       \/ /\ selection = <<"6">>
          /\ print_books
          /\ after_call("librarian", selection)
       \/ /\ selection = <<"0">>
          /\ exit_system(selection)
       \/ /\ selection \notin {<<"1">>, <<"2">>, <<"3">>, <<"4">>, <<"5">>,
                               <<"6">>, <<"0">>}
          /\ invalid_option("librarian", selection)

\* add_book, called from the librarian menu, asking for the genre again
librarian_add_retry ==
    /\ menu.at = "librarian"
    /\ \E g \in GenreInputs : add_book_retry(g)
    /\ UNCHANGED menu

MenuNext ==
    \/ main
    \/ \E raw \in Selections : main_menu(raw)
    \/ \E raw \in Selections : librarian_menu(raw)
    \/ librarian_add_retry

\* one run of the program from main() to its exit
MenuSpec == MenuInit /\ [][MenuNext]_vars

(* ======================================================================= *)
(*                               Properties                                *)
(* ======================================================================= *)

\* some book of the catalog has this ISBN
HasIsbn(books, isbn) == \E i \in 1..Len(books) : books[i].isbn = isbn

\* position (from 1) of the earliest book with this ISBN
FirstPos(books, isbn) ==
    CHOOSE i \in 1..Len(books) :
        /\ books[i].isbn = isbn
        /\ \A j \in 1..Len(books) : books[j].isbn = isbn => i <= j

\* the catalog is the same but for the available flag of the book at pos
OnlyAvailableChanged(before, after, pos, flag) ==
    /\ Len(after) = Len(before)
    /\ \A i \in 1..Len(before) :
          after[i] = IF i = pos THEN [before[i] EXCEPT !.available = flag]
                     ELSE before[i]

\* C1: a borrow of an ISBN reports "not found" exactly when no book of the
\* catalog has the ISBN, "not available" exactly when the earliest book with
\* it is already borrowed, and success otherwise; after a success that book
\* is not available, nothing else of the catalog has changed and the title
\* printed is its title.  The ISBN is the typed line as borrow_book looks it
\* up, that is, stripped.
C1_BorrowOutcomes ==
    [][last'.op = "borrow" =>
         LET isbn == last'.arg IN
         /\ last'.out \in {"not_found", "not_available", "borrowed"}
         /\ (last'.out = "not_found") = ~HasIsbn(book_list, isbn)
         /\ (last'.out = "not_available") =
               (HasIsbn(book_list, isbn)
                  /\ ~book_list[FirstPos(book_list, isbn)].available)
         /\ last'.out = "borrowed" =>
               /\ book_list[FirstPos(book_list, isbn)].available
               /\ ~book_list'[FirstPos(book_list, isbn)].available
               /\ OnlyAvailableChanged(book_list, book_list',
                                       FirstPos(book_list, isbn), FALSE)
               /\ last'.title = book_list[FirstPos(book_list, isbn)].title]_vars

\* a borrow has succeeded on the second of two books with different titles
C1_Witness ==
    /\ last.op = "borrow" /\ last.out = "borrowed"
    /\ Len(book_list) >= 2
    /\ book_list[2].isbn = last.arg /\ book_list[1].isbn # last.arg
    /\ book_list[2].title = last.title /\ book_list[1].title # last.title
    /\ ~book_list[2].available

\* C2: a return of an ISBN reports "not found" exactly when no book of the
\* catalog has the ISBN, "not borrowed" exactly when the earliest book with
\* it is available, and success otherwise; after a success that book is
\* available and nothing else of the catalog has changed.
C2_ReturnOutcomes ==
    [][last'.op = "return" =>
         LET isbn == last'.arg IN
         /\ last'.out \in {"not_found", "not_borrowed", "returned"}
         /\ (last'.out = "not_found") = ~HasIsbn(book_list, isbn)
         /\ (last'.out = "not_borrowed") =
               (HasIsbn(book_list, isbn)
                  /\ book_list[FirstPos(book_list, isbn)].available)
         /\ last'.out = "returned" =>
               /\ ~book_list[FirstPos(book_list, isbn)].available
               /\ book_list'[FirstPos(book_list, isbn)].available
               /\ OnlyAvailableChanged(book_list, book_list',
                                       FirstPos(book_list, isbn), TRUE)]_vars

\* a return has succeeded on a book that is not the first of the catalog
C2_Witness ==
    /\ last.op = "return" /\ last.out = "returned"
    /\ Len(book_list) >= 2
    /\ book_list[2].isbn = last.arg /\ book_list[1].isbn # last.arg
    /\ book_list[2].available

\* C3: a borrow of an ISBN that no book has or whose earliest book is
\* already borrowed, and a return of an ISBN that no book has or whose
\* earliest book is available, report the error and leave the catalog and the
\* file as they were.
C3_FailureChangesNothing ==
    [][/\ (/\ last'.op = "borrow"
           /\ \/ ~HasIsbn(book_list, last'.arg)
              \/ ~book_list[FirstPos(book_list, last'.arg)].available)
          => /\ last'.out \in {"not_found", "not_available"}
             /\ UNCHANGED <<book_list, file, adding>>
       /\ (/\ last'.op = "return"
           /\ \/ ~HasIsbn(book_list, last'.arg)
              \/ book_list[FirstPos(book_list, last'.arg)].available)
          => /\ last'.out \in {"not_found", "not_borrowed"}
             /\ UNCHANGED <<book_list, file, adding>>]_vars

\* C3: after a failed borrow or return, the same call again is a step that
\* changes nothing: the same outcome is reported and the catalog is the same.
C3_FailureRepeats ==
    /\ (last.op = "borrow" /\ last.out \in {"not_found", "not_available"})
          => ENABLED (borrow_book(last.arg) /\ UNCHANGED vars)
    /\ (last.op = "return" /\ last.out \in {"not_found", "not_borrowed"})
          => ENABLED (return_book(last.arg) /\ UNCHANGED vars)

\* C3: both parts
C3_FailedCallIdempotent == C3_FailureChangesNothing /\ []C3_FailureRepeats

\* a borrow has failed on a borrowed book in a catalog of three books
C3_Witness ==
    /\ last.op = "borrow" /\ last.out = "not_available"
    /\ Len(book_list) = 3
    /\ \E i \in 1..3 : book_list[i].isbn = last.arg /\ ~book_list[i].available

\* C4: no two books of the catalog have the same ISBN.
C4_UniqueIds ==
    \A i, j \in 1..Len(book_list) :
        i # j => book_list[i].isbn # book_list[j].isbn

\* C7: find_book_by_isbn returns the position (from 0) of the earliest book
\* with the ISBN, returns -1 exactly when no book has it, as for every ISBN
\* on the empty catalog, and leaves the catalog as it was.
C7_FindFirstOrNotFound ==
    [][last'.op = "find" =>
         /\ UNCHANGED <<book_list, file, adding>>
         /\ (last'.ret = -1) = ~HasIsbn(book_list, last'.arg)
         /\ book_list = <<>> => last'.ret = -1
         /\ HasIsbn(book_list, last'.arg) =>
               /\ last'.ret \in 0..(Len(book_list) - 1)
               /\ book_list[last'.ret + 1].isbn = last'.arg
               /\ \A j \in 1..last'.ret : book_list[j].isbn # last'.arg]_vars

\* the ISBN was found at the second place, ahead of a later book with it
C7_Witness ==
    /\ last.op = "find" /\ last.ret = 1
    /\ Len(book_list) = 3
    /\ book_list[3].isbn = last.arg

\* C8: a remove of an ISBN the catalog holds takes out the earliest book with
\* it and reports that book: the catalog is one shorter, the books before it
\* stay in place and the books after it move up one place, unchanged; a
\* remove of an ISBN the catalog does not hold reports "not found" and leaves
\* the catalog as it was.
C8_RemoveExactlyOne ==
    [][last'.op = "remove" =>
         /\ UNCHANGED <<file, adding>>
         /\ (last'.out = "not_found") = ~HasIsbn(book_list, last'.arg)
         /\ last'.out = "not_found" => UNCHANGED book_list
         /\ HasIsbn(book_list, last'.arg) =>
               LET pos == FirstPos(book_list, last'.arg) IN
               /\ last'.out = "removed"
               /\ last'.results = <<book_list[pos]>>
               /\ last'.title = book_list[pos].title
               /\ Len(book_list') = Len(book_list) - 1
               /\ \A i \in 1..(pos - 1) : book_list'[i] = book_list[i]
               /\ \A i \in pos..Len(book_list') : book_list'[i] = book_list[i + 1]]_vars

\* one of three different books has been removed and the two others remain
C8_Witness ==
    /\ last.op = "remove" /\ last.out = "removed"
    /\ Len(book_list) = 2
    /\ book_list[1] # book_list[2]
    /\ last.results[1] # book_list[1] /\ last.results[1] # book_list[2]
    /\ book_list[1].isbn # last.arg /\ book_list[2].isbn # last.arg

\* the test the search is said to make: the value is part of the lower-cased
\* ISBN, title, author or genre name of the book
Matches(search_value, book) ==
    \/ str_in(search_value, str_lower(book.isbn))
    \/ str_in(search_value, str_lower(book.title))
    \/ str_in(search_value, str_lower(book.author))
    \/ /\ book.genre \in 0..9
       /\ str_in(search_value, str_lower(GENRE_NAMES[book.genre + 1]))

\* C6: a search lists exactly the books that match the lower-cased value, in
\* catalog order, each once, and lists nothing when no book matches.
C6_SearchResults ==
    last.op = "search" =>
        /\ last.out \in {"listed", "no_match"}
        /\ last.results = SelectSeq(book_list, LAMBDA b : Matches(last.arg, b))

C10_LoadReturnsCountLoaded ==
    [][last'.op = "load" =>
         IF file = NoFile
         THEN last'.ret = -1 /\ UNCHANGED book_list
         ELSE last'.out = "loaded" =>
                 last'.ret = Len(book_list') - Len(book_list)]_vars

\* C5: after a save, a load of the file into an empty catalog gives the
\* books of the catalog that was saved, in order, field by field.
C5_RoundTrip ==
    last.op = "save" =>
        load_rows(csv_reader(file), <<>>) = [books |-> book_list, raised |-> FALSE]

\* C11: a load that meets a row it cannot parse leaves no book of that file
\* in the catalog, the rows before the bad one included.
C11_FailedLoadAppendsNothing ==
    [][(last'.op = "load" /\ last'.out = "ValueError")
          => book_list' = book_list]_vars

\* C15: the genre of every book of the catalog is a key of the genre table.
C15_GenreInTable ==
    \A i \in 1..Len(book_list) : book_list[i].genre \in 0..9

\* C20: a search ends by listing books or by reporting that none matches,
\* never by an error.
C20_SearchNeverRaises ==
    last.op = "search" => last.out # "error"

\* C17: an add that is given a genre name of the table appends one book at
\* the end of the catalog: it has the given (stripped) ISBN, title and
\* author, the genre whose name in the table is the given name, and is
\* available; the books that were in the catalog are as they were.
C17_AddAppendsOne ==
    [][(last'.op = "add" /\ last'.out = "added") =>
         /\ \E k \in 0..9 : GENRE_NAMES[k + 1] = last'.given[4]
         /\ Len(book_list') = Len(book_list) + 1
         /\ \A i \in 1..Len(book_list) : book_list'[i] = book_list[i]
         /\ LET new == book_list'[Len(book_list')] IN
            /\ new.isbn = last'.given[1]
            /\ new.title = last'.given[2]
            /\ new.author = last'.given[3]
            /\ new.genre \in 0..9
            /\ GENRE_NAMES[new.genre + 1] = last'.given[4]
            /\ new.available = TRUE]_vars

\* a third book has been added behind a borrowed one
C17_Witness ==
    /\ last.op = "add" /\ last.out = "added"
    /\ Len(book_list) = 3
    /\ book_list[3].isbn = last.given[1]
    /\ book_list[3].genre = 9
    /\ \E i \in 1..2 : ~book_list[i].available

\* C19: when a later book has the ISBN of an earlier one, a borrow, return or
\* remove of that ISBN leaves the later book as it is (a remove moves it up
\* one place), and what borrow and return report follows from the available
\* flag of the earliest book with the ISBN.
C19_OnlyEarliestActedOn ==
    [][(last'.op \in {"borrow", "return", "remove"} /\ HasIsbn(book_list, last'.arg)) =>
         LET first == FirstPos(book_list, last'.arg) IN
         /\ \A j \in (first + 1)..Len(book_list) :
               book_list[j].isbn = last'.arg =>
                  IF last'.op = "remove"
                  THEN /\ Len(book_list') = Len(book_list) - 1
                       /\ book_list'[j - 1] = book_list[j]
                  ELSE /\ Len(book_list') = Len(book_list)
                       /\ book_list'[j] = book_list[j]
         /\ last'.op = "borrow" =>
               last'.out = IF book_list[first].available THEN "borrowed"
                           ELSE "not_available"
         /\ last'.op = "return" =>
               last'.out = IF book_list[first].available THEN "not_borrowed"
                           ELSE "returned"]_vars

\* a borrow has failed on the earlier, borrowed one of two books with the
\* same ISBN while the later one is available
C19_Witness ==
    /\ last.op = "borrow" /\ last.out = "not_available"
    /\ Len(book_list) >= 2
    /\ \E i, j \in 1..Len(book_list) :
          /\ i < j
          /\ book_list[i].isbn = last.arg /\ book_list[j].isbn = last.arg
          /\ ~book_list[i].available /\ book_list[j].available

\* C14: a method of Book changes its own field of the book it is called on
\* and nothing else, whatever the book's state: borrow_it leaves the book not
\* available and return_it available, also when it already was; a setter
\* leaves its field with the value given.
C14_MutatorsChangeOwnField ==
    [][last'.op \in {"borrow_it", "return_it", "set_isbn", "set_title",
                     "set_author", "set_genre"} =>
         LET i == last'.ret + 1
             old == book_list[i]
             new == book_list'[i]
         IN
         /\ Len(book_list') = Len(book_list)
         /\ \A j \in 1..Len(book_list) : j # i => book_list'[j] = book_list[j]
         /\ new.isbn = IF last'.op = "set_isbn" THEN last'.arg ELSE old.isbn
         /\ new.title = IF last'.op = "set_title" THEN last'.arg ELSE old.title
         /\ new.author = IF last'.op = "set_author" THEN last'.arg ELSE old.author
         /\ new.genre = IF last'.op = "set_genre" THEN last'.arg[1] ELSE old.genre
         /\ new.available = IF last'.op = "borrow_it" THEN FALSE
                            ELSE IF last'.op = "return_it" THEN TRUE
                            ELSE old.available]_vars

\* a borrowed book has been given a new author after a new ISBN, title and
\* genre, and is still borrowed
C14_Witness ==
    /\ last.op = "set_author"
    /\ LET b == book_list[last.ret + 1] IN
       /\ b.author = last.arg
       /\ b.isbn \in IsbnArgs /\ b.title \in TitleArgs /\ b.genre = 12
       /\ ~b.available

\* C18: save overwrites the file in full and leaves the catalog as it was:
\* whatever the file held, after the save it is the text of the rows of the
\* current catalog and nothing else, one row per book in catalog order (read
\* back, row i carries the ISBN, the genre and the available flag of book i),
\* and the catalog is unchanged.
C18_SaveOverwrites ==
    [][last'.op = "save" =>
         /\ book_list' = book_list
         /\ file' # NoFile
         /\ file' = save_text(book_list)
         /\ \E rows \in {csv_reader(file')} :
               /\ Len(rows) = Len(book_list)
               /\ \A i \in 1..Len(book_list) :
                     /\ Len(rows[i]) = 5
                     /\ rows[i][1] = book_list[i].isbn
                     /\ rows[i][4] = py_str(book_list[i].genre)
                     /\ rows[i][5] = IF book_list[i].available THEN TrueText
                                     ELSE FalseText]_vars

\* a save has written a catalog of one borrowed book, and the file is that
\* book's row alone
C18_Witness ==
    /\ last.op = "save"
    /\ Len(book_list) = 1
    /\ ~book_list[1].available
    /\ file = save_text(book_list)

\* C12: in a run of main() and the menus, selection 0 of the main menu or of
\* the librarian menu saves the current catalog and ends the run (nothing
\* happens after the exit), and nothing else saves: the file changes at the
\* exit only, and the run ends by the exit or by an error only.
C12_ExitSavesOnlyAtExit ==
    [][/\ menu.at \notin {"start", "main", "librarian"} => FALSE
       /\ (menu.at \in {"main", "librarian"} /\ menu'.sel = <<"0">>) =>
             /\ menu'.at = "exited"
             /\ last'.op = "save"
             /\ file' = save_text(book_list)
             /\ book_list' = book_list
       /\ menu'.at = "exited" => menu'.sel = <<"0">>
       /\ (last'.op = "save" \/ file' # file) =>
             /\ menu'.sel = <<"0">>
             /\ menu'.at = "exited"]_vars

\* the run has ended by selection 0 with three books in the catalog (one of
\* them added in the librarian menu: no file holds three rows), and the file
\* holds the three
C12_Witness ==
    /\ menu.at = "exited"
    /\ menu.sel = <<"0">>
    /\ last.op = "save"
    /\ Len(book_list) >= 3
    /\ file = save_text(book_list)

\* C13: add, remove and the listing of the catalog happen in the librarian
\* menu only, which is entered from the main menu by the librarian code only;
\* before that, main() loads and the main menu searches, borrows, returns,
\* exits or rejects the selection, and the number of books does not change.
C13_LibrarianGate ==
    [][/\ last'.op \in {"add", "remove", "list"} => menu.at = "librarian"
       /\ (menu'.at = "librarian" /\ menu.at # "librarian") =>
             /\ menu.at = "main"
             /\ menu'.sel = <<"2", "1", "3", "0">>
       /\ menu.at = "start" => last'.op = "load"
       /\ menu.at = "main" =>
             /\ last'.op \in {"search", "borrow", "return", "save", "menu"}
             /\ Len(book_list') = Len(book_list)
             /\ menu'.sel \in {<<"4">>, <<"5">>, <<"6">>} =>
                   /\ last'.out = "invalid_option"
                   /\ book_list' = book_list]_vars

\* a book has been added in the librarian menu
C13_Witness ==
    /\ menu.at = "librarian"
    /\ menu.sel = <<"4">>
    /\ last.op = "add"
    /\ last.out = "added"
    /\ book_list # <<>>

\* the book at position j after the step has the available flag the book at
\* position i had before it
KeepsAvailable(i, j) == book_list'[j].available = book_list[i].available

\* C16: the available flag of a book changes only by a successful borrow
\* (from available to borrowed) and by a successful return (from borrowed to
\* available), and each of the two changes one book.  Find, search, list,
\* save and every failed call leave every flag as it is; add and load keep
\* the flags of the books already there; remove keeps the flags of the books
\* that stay.  A borrow succeeds on an available book only and a return on a
\* borrowed book only, so the successful borrows and returns of a book
\* alternate.
C16_AvailabilityChanges ==
    [][LET op == last'.op
           out == last'.out
           n == Len(book_list)
       IN
       /\ (op = "remove" /\ out = "removed") =>
             LET k == FirstPos(book_list, last'.arg) IN
             /\ Len(book_list') = n - 1
             /\ \A i \in 1..n : /\ i < k => KeepsAvailable(i, i)
                                /\ i > k => KeepsAvailable(i, i - 1)
       /\ op \in {"add", "load"} =>
             /\ Len(book_list') >= n
             /\ \A i \in 1..n : KeepsAvailable(i, i)
       /\ (op \notin {"add", "load"} /\ ~(op = "remove" /\ out = "removed")) =>
             /\ Len(book_list') = n
             /\ \A i \in 1..n :
                   \/ KeepsAvailable(i, i)
                   \/ /\ op = "borrow" /\ out = "borrowed"
                      /\ book_list[i].available /\ ~book_list'[i].available
                   \/ /\ op = "return" /\ out = "returned"
                      /\ ~book_list[i].available /\ book_list'[i].available
       /\ (op \in {"find", "search", "list", "save"}
           \/ out \in {"not_found", "not_available", "not_borrowed"}) =>
             book_list' = book_list
       /\ ((op = "borrow" /\ out = "borrowed")
           \/ (op = "return" /\ out = "returned")) =>
             Cardinality({i \in 1..n : ~KeepsAvailable(i, i)}) = 1]_vars

\* a book that was borrowed when the catalog was saved has been borrowed
\* again (so it was returned after the save), next to another book
C16_Witness ==
    /\ last.op = "borrow"
    /\ last.out = "borrowed"
    /\ Len(book_list) >= 2
    /\ file = save_text(book_list)

====
